---------------------------- MODULE Spec2Model ----------------------------
(***************************************************************************)
(* A model of harness.go: the tree of test units (H), each run by its own  *)
(* goroutine in tRunner, the Run/Parallel protocol on the signal and       *)
(* barrier channels, Fail's walk up the ancestors, and the deferred        *)
(* finalization of tRunner.                                                *)
(*                                                                         *)
(* A unit is a number 1..MaxUnits, handed out in the order of the Run      *)
(* calls; unit 1 is the root, which the suite starts with tRunner.  Every  *)
(* step of a goroutine that another goroutine can observe is one action.   *)
(* A send and its receive on an unbuffered channel are one joint step.     *)
(***************************************************************************)
EXTENDS Integers, Sequences, FiniteSets

\* Bounds of the model.
MaxUnits == 3
MaxSlots == 2
MaxForeign == 1

Units == 1..MaxUnits
Root == 1
NoUnit == 0

VARIABLES
    n,           \* number of units created so far (the root included)
    parent,      \* H.parent (NoUnit for the root)
    pc,          \* where each unit's goroutine stands
    failed,      \* H.failed
    skipped,     \* H.skipped
    finished,    \* H.finished
    done,        \* H.done
    ran,         \* H.ran
    hasSub,      \* H.hasSub
    isParallel,  \* H.isParallel
    sub,         \* H.sub
    barrier,     \* H.barrier: TRUE once closed
    fault,       \* recover() in tRunner's deferred function returns non-nil
    walk,        \* the units a goroutine's Fail or setRan has still to lock
    joinIdx,     \* position of tRunner's loop over t.sub
    running,     \* the suite's count of held slots
    maxParallel, \* the suite's limit of slots
    verbose,     \* suite.opts.Verbose
    panicked,    \* "" or the message of the panic that ended the process
    fpc,         \* a goroutine other than the units': "idle", "check", "set"
    fq,          \* the units its Fail has still to lock
    nForeign,    \* the calls of Fail it has made
    ret,         \* what Run returned for each child
    sends,       \* per unit, the receivers of the sends on its signal, in order
    nClose,      \* per unit, the number of close(barrier)
    reports,     \* per unit, the status lines it flushed to its parent, in order
    tap,         \* H.tap is not nil
    taps,        \* per unit, the TAP lines written for it, in order
    cancelled,   \* the unit's t.cancel() has been called
    held,        \* per unit, the locks (H.mu) its goroutine holds, oldest first
    line         \* the status line report() chose and has still to flush

vars == <<n, parent, pc, failed, skipped, finished, done, ran, hasSub,
          isParallel, sub, barrier, fault, walk, joinIdx, running,
          maxParallel, verbose, panicked, fpc, fq, nForeign, ret, sends,
          nClose, reports, tap, taps, cancelled, held, line>>

flags == <<failed, skipped, finished, done, ran, hasSub, isParallel>>
foreign == <<fpc, fq, nForeign>>
history == <<ret, sends, nClose, reports>>
output == <<tap, taps>>
locks == <<held, line>>

Created(u) == u <= n

\* Chain with the unit before its parent.
RECURSIVE ChainUnitFirst(_)
ChainUnitFirst(u) ==
    IF parent[u] = NoUnit THEN <<u>> ELSE <<u>> \o ChainUnitFirst(parent[u])

\* The recursion of Fail and setRan: the parent first, then the unit.
RECURSIVE Chain(_)
Chain(u) == IF parent[u] = NoUnit THEN <<u>> ELSE Append(Chain(parent[u]), u)

RECURSIVE Ancestors(_)
Ancestors(u) ==
    IF parent[u] = NoUnit THEN {} ELSE {parent[u]} \cup Ancestors(parent[u])

\* The process is alive: no goroutine has panicked.
Alive == panicked = ""

\* The locks in a sequence of them.
Range(q) == {q[i] : i \in 1..Len(q)}

\* c.mu is held neither by the other goroutine (it holds it from its check
\* of c.done to its write of c.failed) nor by a unit's goroutine in
\* flushToParent.
MuFree(u) ==
    /\ ~(fpc = "set" /\ Head(fq) = u)
    /\ \A t \in Units : u \notin Range(held[t])

Init ==
    /\ n = 1
    /\ parent = [u \in Units |-> NoUnit]
    /\ pc = [u \in Units |-> IF u = Root THEN "body" ELSE "unborn"]
    /\ failed = [u \in Units |-> FALSE]
    /\ skipped = [u \in Units |-> FALSE]
    /\ finished = [u \in Units |-> FALSE]
    /\ done = [u \in Units |-> FALSE]
    /\ ran = [u \in Units |-> FALSE]
    /\ hasSub = [u \in Units |-> FALSE]
    /\ isParallel = [u \in Units |-> FALSE]
    /\ sub = [u \in Units |-> <<>>]
    /\ barrier = [u \in Units |-> FALSE]
    /\ fault = [u \in Units |-> FALSE]
    /\ walk = [u \in Units |-> <<>>]
    /\ joinIdx = [u \in Units |-> 0]
    /\ running = 1
    /\ maxParallel \in 1..MaxSlots
    /\ verbose = FALSE
    /\ panicked = ""
    /\ fpc = "idle"
    /\ fq = <<>>
    /\ nForeign = 0
    /\ ret = [u \in Units |-> "none"]
    /\ sends = [u \in Units |-> <<>>]
    /\ nClose = [u \in Units |-> 0]
    /\ reports = [u \in Units |-> <<>>]
    /\ tap = [u \in Units |-> FALSE]
    /\ taps = [u \in Units |-> <<>>]
    /\ cancelled = [u \in Units |-> FALSE]
    /\ held = [u \in Units |-> <<>>]
    /\ line = [u \in Units |-> ""]

(***************************************************************************)
(* The suite's gate (waitParallel, release) and matcher are not part of    *)
(* harness.go; the gate is a counting semaphore of maxParallel slots, one  *)
(* of which the root holds from the start.                                 *)
(***************************************************************************)
CanAcquire == running < maxParallel

\* The child a goroutine blocked in Run waits for: the last one it created.
Child(t) == CHOOSE c \in 1..n :
    /\ parent[c] = t
    /\ \A d \in 1..n : parent[d] = t => d <= c

\* H.Run for a name the matcher lets through: the child is created and its
\* goroutine started; the caller goes on to block on the child's signal.
Run(t) ==
    /\ Alive
    /\ pc[t] = "body"
    /\ n < MaxUnits
    /\ n' = n + 1
    /\ parent' = [parent EXCEPT ![n + 1] = t]
    /\ hasSub' = [hasSub EXCEPT ![t] = TRUE]
    /\ pc' = [pc EXCEPT ![t] = "Run_wait", ![n + 1] = "body"]
    /\ UNCHANGED <<output, cancelled, locks>>
    /\ UNCHANGED <<failed, skipped, finished, done, ran, isParallel, sub,
                   barrier, fault, walk, joinIdx, running, maxParallel,
                   verbose, panicked, foreign, history>>

\* H.Run for a name the matcher filters out: returns true at once.
RunFiltered(t) ==
    /\ Alive
    /\ pc[t] = "body"
    /\ hasSub' = [hasSub EXCEPT ![t] = TRUE]
    /\ UNCHANGED <<output, cancelled, locks>>
    /\ UNCHANGED <<n, parent, pc, failed, skipped, finished, done, ran,
                   isParallel, sub, barrier, fault, walk, joinIdx, running,
                   maxParallel, verbose, panicked, foreign, history>>

\* A unit's goroutine stands at a send on its signal.
Sending(c) == pc[c] \in {"Parallel_send", "signal"}

\* Where the sender goes on: Parallel waits for the parent's barrier; after
\* tRunner's last send the goroutine ends.
AfterSend(c) == IF pc[c] = "Parallel_send" THEN "Parallel_barrier" ELSE "exited"

\* <-t.signal in Run.
RunRecv(t) ==
    /\ Alive
    /\ pc[t] = "Run_wait"
    /\ Sending(Child(t))
    /\ pc' = [pc EXCEPT ![t] = "Run_ret", ![Child(t)] = AfterSend(Child(t))]
    /\ sends' = [sends EXCEPT ![Child(t)] = Append(@, <<pc[Child(t)], t, "Run">>)]
    /\ UNCHANGED <<output, cancelled, locks>>
    /\ UNCHANGED <<n, parent, flags, sub, barrier, fault, walk, joinIdx,
                   running, maxParallel, verbose, panicked, foreign, ret,
                   nClose, reports>>

\* return !t.failed in Run (read without the lock).
RunRet(t) ==
    /\ Alive
    /\ pc[t] = "Run_ret"
    /\ ret' = [ret EXCEPT ![Child(t)] = IF failed[Child(t)] THEN "false" ELSE "true"]
    /\ pc' = [pc EXCEPT ![t] = "body"]
    /\ UNCHANGED <<output, cancelled, locks>>
    /\ UNCHANGED <<n, parent, flags, sub, barrier, fault, walk, joinIdx,
                   running, maxParallel, verbose, panicked, foreign, sends,
                   nClose, reports>>

\* Parallel without the check of isParallel.
ParallelUnchecked(t) ==
    /\ Alive
    /\ pc[t] = "body"
    /\ parent[t] # NoUnit
    /\ isParallel' = [isParallel EXCEPT ![t] = TRUE]
    /\ sub' = [sub EXCEPT ![parent[t]] = Append(@, t)]
    /\ pc' = [pc EXCEPT ![t] = "Parallel_send"]
    /\ UNCHANGED <<output, cancelled, locks>>
    /\ UNCHANGED <<n, parent, failed, skipped, finished, done, ran, hasSub,
                   barrier, fault, walk, joinIdx, running, maxParallel,
                   verbose, panicked, foreign, history>>

\* H.Parallel up to its send: the panic of a second call, else the unit is
\* marked and appended to its parent's sub.
Parallel(t) ==
    /\ Alive
    /\ pc[t] = "body"
    /\ parent[t] # NoUnit
    /\ IF isParallel[t]
       THEN /\ panicked' = "testing: t.Parallel called multiple times"
            /\ UNCHANGED <<pc, isParallel, sub>>
       ELSE /\ isParallel' = [isParallel EXCEPT ![t] = TRUE]
            /\ sub' = [sub EXCEPT ![parent[t]] = Append(@, t)]
            /\ pc' = [pc EXCEPT ![t] = "Parallel_send"]
            /\ UNCHANGED panicked
    /\ UNCHANGED <<output, cancelled, locks>>
    /\ UNCHANGED <<n, parent, failed, skipped, finished, done, ran, hasSub,
                   barrier, fault, walk, joinIdx, running, maxParallel,
                   verbose, foreign, history>>

\* ParallelBarrier that does not wait for the close.
ParallelBarrierNoWait(t) ==
    /\ Alive
    /\ pc[t] = "Parallel_barrier"
    /\ pc' = [pc EXCEPT ![t] = "Parallel_gate"]
    /\ UNCHANGED <<output, cancelled, locks>>
    /\ UNCHANGED <<n, parent, flags, sub, barrier, fault, walk, joinIdx,
                   running, maxParallel, verbose, panicked, foreign, history>>

\* <-t.parent.barrier in Parallel.
ParallelBarrier(t) ==
    /\ Alive
    /\ pc[t] = "Parallel_barrier"
    /\ barrier[parent[t]]
    /\ pc' = [pc EXCEPT ![t] = "Parallel_gate"]
    /\ UNCHANGED <<output, cancelled, locks>>
    /\ UNCHANGED <<n, parent, flags, sub, barrier, fault, walk, joinIdx,
                   running, maxParallel, verbose, panicked, foreign, history>>

\* ParallelGate that takes a slot without waiting for one.
ParallelGateNoWait(t) ==
    /\ Alive
    /\ pc[t] = "Parallel_gate"
    /\ running' = running + 1
    /\ pc' = [pc EXCEPT ![t] = "body"]
    /\ UNCHANGED <<output, cancelled, locks>>
    /\ UNCHANGED <<n, parent, flags, sub, barrier, fault, walk, joinIdx,
                   maxParallel, verbose, panicked, foreign, history>>

\* t.suite.waitParallel() in Parallel; the body goes on.
ParallelGate(t) ==
    /\ Alive
    /\ pc[t] = "Parallel_gate"
    /\ CanAcquire
    /\ running' = running + 1
    /\ pc' = [pc EXCEPT ![t] = "body"]
    /\ UNCHANGED <<output, cancelled, locks>>
    /\ UNCHANGED <<n, parent, flags, sub, barrier, fault, walk, joinIdx,
                   maxParallel, verbose, panicked, foreign, history>>

\* Where a unit's goroutine goes on when its call of Fail returns: back in
\* the body, out of FailNow into the deferred function (runtime.Goexit), or
\* on to t.report() on the fault path.
AfterFail(mode) ==
    CASE mode = "Fail" -> "body"
      [] mode = "FailNow" -> "deferred"
      [] mode = "fault_Fail" -> "fault_report"

\* One level of Fail's recursion in the goroutine of unit t, which has still
\* to lock the units of w (the outermost ancestor first): under the lock, the
\* panic if that unit is done, else its failed is set.  When the last level
\* returns into FailNow, finished is set.
FailLevel(t, w, mode) ==
    /\ MuFree(Head(w))
    /\ IF done[Head(w)]
       THEN /\ panicked' = "Fail in goroutine after test has completed"
            /\ UNCHANGED <<pc, walk, failed, finished>>
       ELSE /\ failed' = [failed EXCEPT ![Head(w)] = TRUE]
            /\ walk' = [walk EXCEPT ![t] = Tail(w)]
            /\ pc' = [pc EXCEPT ![t] = IF Len(w) = 1 THEN AfterFail(mode)
                                                      ELSE mode]
            /\ finished' = [finished EXCEPT
                              ![t] = @ \/ (Len(w) = 1 /\ mode = "FailNow")]
            /\ UNCHANGED panicked

\* H.Fail (Error, Errorf) called by the body: the recursion reaches the
\* root, the first unit it locks.
Fail(t) ==
    /\ Alive
    /\ pc[t] = "body"
    /\ FailLevel(t, Chain(t), "Fail")
    /\ UNCHANGED <<output, cancelled, locks>>
    /\ UNCHANGED <<n, parent, skipped, done, ran, hasSub, isParallel, sub,
                   barrier, fault, joinIdx, running, maxParallel, verbose,
                   foreign, history>>

\* H.FailNow (Fatal, Fatalf) called by the body: the same through its call
\* of Fail.
FailNow(t) ==
    /\ Alive
    /\ pc[t] = "body"
    /\ FailLevel(t, Chain(t), "FailNow")
    /\ UNCHANGED <<output, cancelled, locks>>
    /\ UNCHANGED <<n, parent, skipped, done, ran, hasSub, isParallel, sub,
                   barrier, fault, joinIdx, running, maxParallel, verbose,
                   foreign, history>>

\* The next level of a call of Fail on its way back down to the unit.
FailStep(t) ==
    /\ Alive
    /\ pc[t] \in {"Fail", "FailNow", "fault_Fail"}
    /\ FailLevel(t, walk[t], pc[t])
    /\ UNCHANGED <<output, cancelled, locks>>
    /\ UNCHANGED <<n, parent, skipped, done, ran, hasSub, isParallel, sub,
                   barrier, fault, joinIdx, running, maxParallel, verbose,
                   foreign, history>>

\* SkipNow that marks the unit failed as well.
SkipNowFails(t) ==
    /\ Alive
    /\ pc[t] = "body"
    /\ MuFree(t)
    /\ skipped' = [skipped EXCEPT ![t] = TRUE]
    /\ failed' = [failed EXCEPT ![t] = TRUE]
    /\ finished' = [finished EXCEPT ![t] = TRUE]
    /\ pc' = [pc EXCEPT ![t] = "deferred"]
    /\ UNCHANGED <<output, cancelled, locks>>
    /\ UNCHANGED <<n, parent, done, ran, hasSub, isParallel, sub,
                   barrier, fault, walk, joinIdx, running, maxParallel,
                   verbose, panicked, foreign, history>>

\* SkipNow that takes the failure back.
SkipNowClearsFailed(t) ==
    /\ Alive
    /\ pc[t] = "body"
    /\ MuFree(t)
    /\ skipped' = [skipped EXCEPT ![t] = TRUE]
    /\ failed' = [failed EXCEPT ![t] = FALSE]
    /\ finished' = [finished EXCEPT ![t] = TRUE]
    /\ pc' = [pc EXCEPT ![t] = "deferred"]
    /\ UNCHANGED <<output, cancelled, locks>>
    /\ UNCHANGED <<n, parent, done, ran, hasSub, isParallel, sub,
                   barrier, fault, walk, joinIdx, running, maxParallel,
                   verbose, panicked, foreign, history>>

\* H.SkipNow (Skip, Skipf): skipped under the lock, finished, Goexit.
SkipNow(t) ==
    /\ Alive
    /\ pc[t] = "body"
    /\ MuFree(t)
    /\ skipped' = [skipped EXCEPT ![t] = TRUE]
    /\ finished' = [finished EXCEPT ![t] = TRUE]
    /\ pc' = [pc EXCEPT ![t] = "deferred"]
    /\ UNCHANGED <<output, cancelled, locks>>
    /\ UNCHANGED <<n, parent, failed, done, ran, hasSub, isParallel, sub,
                   barrier, fault, walk, joinIdx, running, maxParallel,
                   verbose, panicked, foreign, history>>

\* fn(t) returns: t.finished = true, and the deferred function runs.
Return(t) ==
    /\ Alive
    /\ pc[t] = "body"
    /\ finished' = [finished EXCEPT ![t] = TRUE]
    /\ pc' = [pc EXCEPT ![t] = "deferred"]
    /\ UNCHANGED <<output, cancelled, locks>>
    /\ UNCHANGED <<n, parent, failed, skipped, done, ran, hasSub, isParallel,
                   sub, barrier, fault, walk, joinIdx, running, maxParallel,
                   verbose, panicked, foreign, history>>

\* The body panics: the deferred function will recover a non-nil value.
Panic(t) ==
    /\ Alive
    /\ pc[t] = "body"
    /\ fault' = [fault EXCEPT ![t] = TRUE]
    /\ pc' = [pc EXCEPT ![t] = "deferred"]
    /\ UNCHANGED <<output, cancelled, locks>>
    /\ UNCHANGED <<n, parent, flags, sub, barrier, walk, joinIdx, running,
                   maxParallel, verbose, panicked, foreign, history>>

\* The body calls runtime.Goexit itself (or panic(nil)): finished stays
\* false.
Goexit(t) ==
    /\ Alive
    /\ pc[t] = "body"
    /\ pc' = [pc EXCEPT ![t] = "deferred"]
    /\ UNCHANGED <<output, cancelled, locks>>
    /\ UNCHANGED <<n, parent, flags, sub, barrier, fault, walk, joinIdx,
                   running, maxParallel, verbose, panicked, foreign, history>>

\* Status with skipped looked at before failed.
StatusSkipFirst(t) ==
    IF parent[t] = NoUnit THEN ""
    ELSE IF skipped[t] /\ verbose THEN "SKIP"
    ELSE IF failed[t] THEN "FAIL"
    ELSE IF verbose THEN "PASS"
    ELSE ""

\* The status line H.report flushes to the parent ("" for none).
Status(t) ==
    IF parent[t] = NoUnit THEN ""
    ELSE IF failed[t] THEN "FAIL"
    ELSE IF verbose THEN (IF skipped[t] THEN "SKIP" ELSE "PASS")
    ELSE ""

\* H.report takes t.mu to read the flags and, to flush, the parent's mu.
CanReport(t) ==
    /\ MuFree(t)
    /\ Status(t) # "" => MuFree(parent[t])

Reported(t) ==
    IF Status(t) = "" THEN reports
    ELSE [reports EXCEPT ![t] = Append(@, Status(t))]

\* The TAP line flushToParent writes for c.
TapLine(c) ==
    IF failed[c] THEN "not ok"
    ELSE IF skipped[c] THEN "ok # SKIP"
    ELSE "ok"

\* flushToParent writes a TAP line if the parent's tap is set.
Tapped(t) ==
    IF Status(t) = "" \/ ~tap[parent[t]] THEN taps
    ELSE [taps EXCEPT ![t] = Append(@, TapLine(t))]

\* Where tRunner goes on after its loop over t.sub.
AfterJoin(t) == IF isParallel[t] THEN "report" ELSE "reacquire"

\* Deferred that closes the barrier and keeps the slot.
DeferredKeepSlot(t) ==
    /\ Alive
    /\ pc[t] = "deferred"
    /\ IF fault[t] \/ ~finished[t]
       THEN /\ FailLevel(t, Chain(t), "fault_Fail")
            /\ UNCHANGED <<running, barrier, nClose, joinIdx>>
       ELSE /\ IF Len(sub[t]) > 0
               THEN /\ UNCHANGED running
                    /\ barrier' = [barrier EXCEPT ![t] = TRUE]
                    /\ nClose' = [nClose EXCEPT ![t] = @ + 1]
                    /\ joinIdx' = [joinIdx EXCEPT ![t] = 1]
                    /\ pc' = [pc EXCEPT ![t] = "join"]
               ELSE /\ running' = IF isParallel[t] THEN running - 1
                                                   ELSE running
                    /\ pc' = [pc EXCEPT ![t] = "report"]
                    /\ UNCHANGED <<barrier, nClose, joinIdx>>
            /\ UNCHANGED <<walk, failed, finished, panicked>>
    /\ UNCHANGED <<output, cancelled, locks>>
    /\ UNCHANGED <<n, parent, skipped, done, ran, hasSub, isParallel, sub,
                   fault, maxParallel, verbose, foreign, ret, sends, reports>>

\* Deferred that takes the fault path only on a recovered panic.
DeferredFaultOnly(t) ==
    /\ Alive
    /\ pc[t] = "deferred"
    /\ IF fault[t]
       THEN /\ FailLevel(t, Chain(t), "fault_Fail")
            /\ UNCHANGED <<running, barrier, nClose, joinIdx>>
       ELSE /\ IF Len(sub[t]) > 0
               THEN /\ running' = running - 1
                    /\ barrier' = [barrier EXCEPT ![t] = TRUE]
                    /\ nClose' = [nClose EXCEPT ![t] = @ + 1]
                    /\ joinIdx' = [joinIdx EXCEPT ![t] = 1]
                    /\ pc' = [pc EXCEPT ![t] = "join"]
               ELSE /\ running' = IF isParallel[t] THEN running - 1
                                                   ELSE running
                    /\ pc' = [pc EXCEPT ![t] = "report"]
                    /\ UNCHANGED <<barrier, nClose, joinIdx>>
            /\ UNCHANGED <<walk, failed, finished, panicked>>
    /\ UNCHANGED <<output, cancelled, locks>>
    /\ UNCHANGED <<n, parent, skipped, done, ran, hasSub, isParallel, sub,
                   fault, maxParallel, verbose, foreign, ret, sends, reports>>

\* Deferred that releases the parallel subtests and does not wait for them.
DeferredNoWait(t) ==
    /\ Alive
    /\ pc[t] = "deferred"
    /\ IF fault[t] \/ ~finished[t]
       THEN /\ FailLevel(t, Chain(t), "fault_Fail")
            /\ UNCHANGED <<running, barrier, nClose, joinIdx>>
       ELSE /\ IF Len(sub[t]) > 0
               THEN /\ running' = running - 1
                    /\ barrier' = [barrier EXCEPT ![t] = TRUE]
                    /\ nClose' = [nClose EXCEPT ![t] = @ + 1]
                    /\ joinIdx' = [joinIdx EXCEPT ![t] = 1]
                    /\ pc' = [pc EXCEPT ![t] = AfterJoin(t)]
               ELSE /\ running' = IF isParallel[t] THEN running - 1
                                                   ELSE running
                    /\ pc' = [pc EXCEPT ![t] = "report"]
                    /\ UNCHANGED <<barrier, nClose, joinIdx>>
            /\ UNCHANGED <<walk, failed, finished, panicked>>
    /\ UNCHANGED <<output, cancelled, locks>>
    /\ UNCHANGED <<n, parent, skipped, done, ran, hasSub, isParallel, sub,
                   fault, maxParallel, verbose, foreign, ret, sends, reports>>

\* The deferred function of tRunner from recover() to its wait for the
\* parallel subtests.  On a fault, or a body that did not finish, t.Fail()
\* is called.  Else with subtests the slot is released and the barrier
\* closed; else a parallel test releases its slot.
Deferred(t) ==
    /\ Alive
    /\ pc[t] = "deferred"
    /\ IF fault[t] \/ ~finished[t]
       THEN /\ FailLevel(t, Chain(t), "fault_Fail")
            /\ UNCHANGED <<running, barrier, nClose, joinIdx>>
       ELSE /\ IF Len(sub[t]) > 0
               THEN /\ running' = running - 1
                    /\ barrier' = [barrier EXCEPT ![t] = TRUE]
                    /\ nClose' = [nClose EXCEPT ![t] = @ + 1]
                    /\ joinIdx' = [joinIdx EXCEPT ![t] = 1]
                    /\ pc' = [pc EXCEPT ![t] = "join"]
               ELSE /\ running' = IF isParallel[t] THEN running - 1
                                                   ELSE running
                    /\ pc' = [pc EXCEPT ![t] = "report"]
                    /\ UNCHANGED <<barrier, nClose, joinIdx>>
            /\ UNCHANGED <<walk, failed, finished, panicked>>
    /\ UNCHANGED <<output, cancelled, locks>>
    /\ UNCHANGED <<n, parent, skipped, done, ran, hasSub, isParallel, sub,
                   fault, maxParallel, verbose, foreign, ret, sends, reports>>

\* t.report(); panic(err) on the fault path: the process ends.
FaultReport(t) ==
    /\ Alive
    /\ pc[t] = "fault_report"
    /\ CanReport(t)
    /\ reports' = Reported(t)
    /\ panicked' = "tRunner: panic(err)"
    /\ pc' = [pc EXCEPT ![t] = "panicked"]
    /\ taps' = Tapped(t)
    /\ UNCHANGED <<tap, cancelled, locks>>
    /\ UNCHANGED <<n, parent, flags, sub, barrier, fault, walk, joinIdx,
                   running, maxParallel, verbose, foreign, ret, sends, nClose>>

\* Join that goes on to the next subtest without its signal.
JoinNoWait(t) ==
    /\ Alive
    /\ pc[t] = "join"
    /\ joinIdx' = [joinIdx EXCEPT ![t] = @ + 1]
    /\ pc' = [pc EXCEPT
                ![t] = IF joinIdx[t] = Len(sub[t]) THEN AfterJoin(t) ELSE "join"]
    /\ UNCHANGED <<output, cancelled, locks>>
    /\ UNCHANGED <<n, parent, flags, sub, barrier, fault, walk, running,
                   maxParallel, verbose, panicked, foreign, history>>

\* <-sub.signal in tRunner's loop over t.sub.
Join(t) ==
    /\ Alive
    /\ pc[t] = "join"
    /\ Sending(sub[t][joinIdx[t]])
    /\ sends' = [sends EXCEPT ![sub[t][joinIdx[t]]] =
                    Append(@, <<pc[sub[t][joinIdx[t]]], t, "tRunner">>)]
    /\ joinIdx' = [joinIdx EXCEPT ![t] = @ + 1]
    /\ pc' = [pc EXCEPT
                ![sub[t][joinIdx[t]]] = AfterSend(sub[t][joinIdx[t]]),
                ![t] = IF joinIdx[t] = Len(sub[t]) THEN AfterJoin(t) ELSE "join"]
    /\ UNCHANGED <<output, cancelled, locks>>
    /\ UNCHANGED <<n, parent, flags, sub, barrier, fault, walk, running,
                   maxParallel, verbose, panicked, foreign, ret, nClose,
                   reports>>

\* Reacquire that goes on without taking a slot.
ReacquireNoSlot(t) ==
    /\ Alive
    /\ pc[t] = "reacquire"
    /\ UNCHANGED running
    /\ pc' = [pc EXCEPT ![t] = "report"]
    /\ UNCHANGED <<output, cancelled, locks>>
    /\ UNCHANGED <<n, parent, flags, sub, barrier, fault, walk, joinIdx,
                   maxParallel, verbose, panicked, foreign, history>>

\* t.suite.waitParallel() of a sequential test after its subtests.
Reacquire(t) ==
    /\ Alive
    /\ pc[t] = "reacquire"
    /\ CanAcquire
    /\ running' = running + 1
    /\ pc' = [pc EXCEPT ![t] = "report"]
    /\ UNCHANGED <<output, cancelled, locks>>
    /\ UNCHANGED <<n, parent, flags, sub, barrier, fault, walk, joinIdx,
                   maxParallel, verbose, panicked, foreign, history>>

\* t.report() after all subtests have finished.
Report(t) ==
    /\ Alive
    /\ pc[t] = "report"
    /\ CanReport(t)
    /\ reports' = Reported(t)
    /\ pc' = [pc EXCEPT ![t] = "done"]
    /\ taps' = Tapped(t)
    /\ UNCHANGED <<tap, cancelled, locks>>
    /\ UNCHANGED <<n, parent, flags, sub, barrier, fault, walk, joinIdx,
                   running, maxParallel, verbose, panicked, foreign, ret,
                   sends, nClose>>

\* SetDone with the send moved into the branch that calls setRan.
SetDoneSendInBranch(t) ==
    /\ Alive
    /\ pc[t] = "done"
    /\ done' = [done EXCEPT ![t] = TRUE]
    /\ IF parent[t] # NoUnit /\ ~hasSub[t]
       THEN /\ walk' = [walk EXCEPT ![t] = Chain(t)]
            /\ pc' = [pc EXCEPT ![t] = "setRan"]
       ELSE /\ pc' = [pc EXCEPT ![t] = "exited"]
            /\ UNCHANGED walk
    /\ UNCHANGED <<output, cancelled, locks>>
    /\ UNCHANGED <<n, parent, failed, skipped, finished, ran, hasSub,
                   isParallel, sub, barrier, fault, joinIdx, running,
                   maxParallel, verbose, panicked, foreign, history>>

\* t.done = true, written without the lock; then setRan's recursion starts
\* for a test that has a parent and ran no subtest.
SetDone(t) ==
    /\ Alive
    /\ pc[t] = "done"
    /\ done' = [done EXCEPT ![t] = TRUE]
    /\ IF parent[t] # NoUnit /\ ~hasSub[t]
       THEN /\ walk' = [walk EXCEPT ![t] = Chain(t)]
            /\ pc' = [pc EXCEPT ![t] = "setRan"]
       ELSE /\ pc' = [pc EXCEPT ![t] = "signal"]
            /\ UNCHANGED walk
    /\ UNCHANGED <<output, cancelled, locks>>
    /\ UNCHANGED <<n, parent, failed, skipped, finished, ran, hasSub,
                   isParallel, sub, barrier, fault, joinIdx, running,
                   maxParallel, verbose, panicked, foreign, history>>

\* One level of setRan's recursion, under c.mu.
SetRanStep(t) ==
    /\ Alive
    /\ pc[t] = "setRan"
    /\ MuFree(Head(walk[t]))
    /\ ran' = [ran EXCEPT ![Head(walk[t])] = TRUE]
    /\ walk' = [walk EXCEPT ![t] = Tail(@)]
    /\ pc' = [pc EXCEPT ![t] = IF Len(walk[t]) = 1 THEN "signal" ELSE "setRan"]
    /\ UNCHANGED <<output, cancelled, locks>>
    /\ UNCHANGED <<n, parent, failed, skipped, finished, done, hasSub,
                   isParallel, sub, barrier, fault, joinIdx, running,
                   maxParallel, verbose, panicked, foreign, history>>

\* The suite, which started the root with tRunner, receives its signal.
SuiteRecv ==
    /\ Alive
    /\ pc[Root] = "signal"
    /\ pc' = [pc EXCEPT ![Root] = "exited"]
    /\ sends' = [sends EXCEPT ![Root] = Append(@, <<"signal", NoUnit, "suite">>)]
    /\ UNCHANGED <<output, cancelled, locks>>
    /\ UNCHANGED <<n, parent, flags, sub, barrier, fault, walk, joinIdx,
                   running, maxParallel, verbose, panicked, foreign, ret,
                   nClose, reports>>

(***************************************************************************)
(* A goroutine that is not a unit's own (one a body started) calls Fail    *)
(* (Error, Errorf) on a unit.  Under c.mu it reads c.done and then writes  *)
(* c.failed; tRunner writes t.done without the lock, so that write can     *)
(* fall between the two.                                                   *)
(***************************************************************************)
ForeignFail(u) ==
    /\ Alive
    /\ fpc = "idle"
    /\ nForeign < MaxForeign
    /\ Created(u)
    /\ fq' = Chain(u)
    /\ fpc' = "check"
    /\ nForeign' = nForeign + 1
    /\ UNCHANGED <<output, cancelled, locks>>
    /\ UNCHANGED <<n, parent, pc, flags, sub, barrier, fault, walk, joinIdx,
                   running, maxParallel, verbose, panicked, history>>

\* c.mu.Lock(); if c.done { panic }
ForeignCheck ==
    /\ Alive
    /\ fpc = "check"
    /\ MuFree(Head(fq))
    /\ IF done[Head(fq)]
       THEN /\ panicked' = "Fail in goroutine after test has completed"
            /\ UNCHANGED fpc
       ELSE /\ fpc' = "set"
            /\ UNCHANGED panicked
    /\ UNCHANGED <<output, cancelled, locks>>
    /\ UNCHANGED <<n, parent, pc, flags, sub, barrier, fault, walk, joinIdx,
                   running, maxParallel, verbose, fq, nForeign, history>>

\* c.failed = true; c.mu.Unlock()
ForeignSet ==
    /\ Alive
    /\ fpc = "set"
    /\ failed' = [failed EXCEPT ![Head(fq)] = TRUE]
    /\ fq' = Tail(fq)
    /\ fpc' = IF Len(fq) = 1 THEN "idle" ELSE "check"
    /\ UNCHANGED <<output, cancelled, locks>>
    /\ UNCHANGED <<n, parent, pc, skipped, finished, done, ran, hasSub,
                   isParallel, sub, barrier, fault, walk, joinIdx, running,
                   maxParallel, verbose, panicked, nForeign, history>>

(***************************************************************************)
(* t.report() lock by lock.  report reads the flags under t.mu;            *)
(* flushToParent takes the parent's mu, writes the header, reads the flags *)
(* for the TAP line, takes the unit's own mu, copies the output and gives  *)
(* both locks back.  Where no other goroutine takes a unit's lock these    *)
(* steps are the one step Report.                                          *)
(***************************************************************************)
\* t.Failed(), t.Skipped() in report: the status line is chosen.
ReportRead(t) ==
    /\ Alive
    /\ pc[t] = "report"
    /\ MuFree(t)
    /\ line' = [line EXCEPT ![t] = Status(t)]
    /\ pc' = [pc EXCEPT ![t] = IF Status(t) = "" THEN "done" ELSE "flush"]
    /\ UNCHANGED <<output, cancelled, held>>
    /\ UNCHANGED <<n, parent, flags, sub, barrier, fault, walk, joinIdx,
                   running, maxParallel, verbose, panicked, foreign, history>>

\* FlushLock that takes the unit's own lock first.
FlushLockChildFirst(t) ==
    /\ Alive
    /\ pc[t] = "flush"
    /\ MuFree(t)
    /\ held' = [held EXCEPT ![t] = <<t>>]
    /\ reports' = [reports EXCEPT ![t] = Append(@, line[t])]
    /\ pc' = [pc EXCEPT ![t] = "flushing"]
    /\ UNCHANGED <<output, cancelled, line>>
    /\ UNCHANGED <<n, parent, flags, sub, barrier, fault, walk, joinIdx,
                   running, maxParallel, verbose, panicked, foreign, ret,
                   sends, nClose>>

\* p.mu.Lock() in flushToParent, and the header written to p.w.
FlushLock(t) ==
    /\ Alive
    /\ pc[t] = "flush"
    /\ MuFree(parent[t])
    /\ held' = [held EXCEPT ![t] = <<parent[t]>>]
    /\ reports' = [reports EXCEPT ![t] = Append(@, line[t])]
    /\ pc' = [pc EXCEPT ![t] = "flushing"]
    /\ UNCHANGED <<output, cancelled, line>>
    /\ UNCHANGED <<n, parent, flags, sub, barrier, fault, walk, joinIdx,
                   running, maxParallel, verbose, panicked, foreign, ret,
                   sends, nClose>>

\* The TAP line, from c.Failed() and c.Skipped(), and c.mu.Lock().
FlushChildLock(t) ==
    /\ Alive
    /\ pc[t] = "flushing"
    /\ MuFree(t)
    /\ taps' = IF tap[parent[t]]
               THEN [taps EXCEPT ![t] = Append(@, TapLine(t))]
               ELSE taps
    /\ held' = [held EXCEPT ![t] = Append(@, t)]
    /\ pc' = [pc EXCEPT ![t] = "copy"]
    /\ UNCHANGED <<tap, cancelled, line>>
    /\ UNCHANGED <<n, parent, flags, sub, barrier, fault, walk, joinIdx,
                   running, maxParallel, verbose, panicked, foreign, history>>

\* io.Copy(p.w, &c.output) and the two deferred Unlock.
FlushUnlock(t) ==
    /\ Alive
    /\ pc[t] = "copy"
    /\ held' = [held EXCEPT ![t] = <<>>]
    /\ line' = [line EXCEPT ![t] = ""]
    /\ pc' = [pc EXCEPT ![t] = "done"]
    /\ UNCHANGED <<output, cancelled>>
    /\ UNCHANGED <<n, parent, flags, sub, barrier, fault, walk, joinIdx,
                   running, maxParallel, verbose, panicked, foreign, history>>

\* What a test body may do next, SkipNow apart.
Body(t) ==
    \/ Run(t)
    \/ Parallel(t)
    \/ Fail(t)
    \/ FailNow(t)
    \/ Return(t)
    \/ Panic(t)
    \/ Goexit(t)

\* The steps of Run, Parallel and tRunner that follow.
Step(t) ==
    \/ RunRecv(t)
    \/ RunRet(t)
    \/ ParallelBarrier(t)
    \/ ParallelGate(t)
    \/ FailStep(t)
    \/ Deferred(t)
    \/ Join(t)
    \/ Reacquire(t)
    \/ Report(t)
    \/ SetDone(t)
    \/ SetRanStep(t)

Foreign ==
    \/ \E u \in Units : ForeignFail(u)
    \/ ForeignCheck
    \/ ForeignSet

\* The units' goroutines and the suite's receive.
Next ==
    \/ \E t \in Units : Body(t)
    \/ \E t \in Units : Step(t)
    \/ \E t \in Units : FaultReport(t)
    \/ SuiteRecv

Spec == Init /\ [][Next]_vars

\* The same with SkipNow, with names the matcher filters out and with a
\* goroutine of the test's own that calls Fail.
RaceNext ==
    \/ Next
    \/ \E t \in Units : SkipNow(t)
    \/ \E t \in Units : RunFiltered(t)
    \/ Foreign

RaceSpec == Init /\ [][RaceNext]_vars

\* Bodies that end by returning, by FailNow or by SkipNow, and call Parallel
\* at most once: no fault and no misuse.
BodyEnd(t) ==
    \/ Return(t)
    \/ FailNow(t)
    \/ SkipNow(t)

LiveNext ==
    \/ \E t \in Units : Run(t)
    \/ \E t \in Units : ~isParallel[t] /\ Parallel(t)
    \/ \E t \in Units : BodyEnd(t)
    \/ \E t \in Units : Step(t)
    \/ SuiteRecv

\* The scheduler runs every goroutine that can take a step, and every body
\* ends.
LiveSpec ==
    /\ Init
    /\ [][LiveNext]_vars
    /\ \A t \in Units : WF_vars(Step(t))
    /\ \A t \in Units : WF_vars(BodyEnd(t))
    /\ WF_vars(SuiteRecv)

\* Bodies that call Run and Parallel once, and end by returning, by FailNow,
\* by SkipNow or by runtime.Goexit.
FlagNext ==
    \/ LiveNext
    \/ \E t \in Units : Goexit(t)
    \/ \E t \in Units : FaultReport(t)

FlagSpec == Init /\ [][FlagNext]_vars

(***************************************************************************)
(* The suite's options: whether the run is verbose, the slots of the gate, *)
(* and whether the root has a TAP destination.  Run leaves the tap of the  *)
(* units it creates unset.                                                 *)
(***************************************************************************)
Start(vb, slots, tp) ==
    /\ n = 1
    /\ parent = [u \in Units |-> NoUnit]
    /\ pc = [u \in Units |-> IF u = Root THEN "body" ELSE "unborn"]
    /\ failed = [u \in Units |-> FALSE]
    /\ skipped = [u \in Units |-> FALSE]
    /\ finished = [u \in Units |-> FALSE]
    /\ done = [u \in Units |-> FALSE]
    /\ ran = [u \in Units |-> FALSE]
    /\ hasSub = [u \in Units |-> FALSE]
    /\ isParallel = [u \in Units |-> FALSE]
    /\ sub = [u \in Units |-> <<>>]
    /\ barrier = [u \in Units |-> FALSE]
    /\ fault = [u \in Units |-> FALSE]
    /\ walk = [u \in Units |-> <<>>]
    /\ joinIdx = [u \in Units |-> 0]
    /\ running = 1
    /\ maxParallel \in slots
    /\ verbose \in vb
    /\ panicked = ""
    /\ fpc = "idle"
    /\ fq = <<>>
    /\ nForeign = 0
    /\ ret = [u \in Units |-> "none"]
    /\ sends = [u \in Units |-> <<>>]
    /\ nClose = [u \in Units |-> 0]
    /\ reports = [u \in Units |-> <<>>]
    /\ tap = [u \in Units |-> tp /\ u = Root]
    /\ taps = [u \in Units |-> <<>>]
    /\ cancelled = [u \in Units |-> FALSE]
    /\ held = [u \in Units |-> <<>>]
    /\ line = [u \in Units |-> ""]

\* A run that may be verbose, with a TAP destination on the root.
OutInit == Start(BOOLEAN, {MaxSlots}, TRUE)

\* A run that is not verbose, has no TAP destination and a gate of MaxSlots
\* slots.
WideInit == Start({FALSE}, {MaxSlots}, FALSE)

\* A verbose run, in which every unit below the root reports.
VerboseInit == Start({TRUE}, {MaxSlots}, FALSE)

\* The steps of Run and tRunner of a unit that never calls Parallel.
SeqStep(t) ==
    \/ RunRecv(t)
    \/ RunRet(t)
    \/ FailStep(t)
    \/ Deferred(t)
    \/ Report(t)
    \/ SetDone(t)
    \/ SetRanStep(t)

\* Bodies that call Run and Fail, never Parallel, and then return, skip or
\* call runtime.Goexit.
OutNext ==
    \/ \E t \in Units : Run(t)
    \/ \E t \in Units : Fail(t)
    \/ \E t \in Units : Return(t)
    \/ \E t \in Units : SkipNow(t)
    \/ \E t \in Units : Goexit(t)
    \/ \E t \in Units : SeqStep(t)
    \/ \E t \in Units : FaultReport(t)
    \/ SuiteRecv

OutSpec == OutInit /\ [][OutNext]_vars

(***************************************************************************)
(* The locks.  Bodies call Run and Parallel once and return, report goes   *)
(* lock by lock, and a goroutine of the test's own calls Fail (Error) on   *)
(* any unit: level by level it takes c.mu as Log does and holds it over    *)
(* its check and its write.                                                *)
(***************************************************************************)
LockStep(t) ==
    \/ RunRecv(t)
    \/ RunRet(t)
    \/ ParallelBarrier(t)
    \/ ParallelGate(t)
    \/ Deferred(t)
    \/ Join(t)
    \/ Reacquire(t)
    \/ ReportRead(t)
    \/ FlushLock(t)
    \/ FlushChildLock(t)
    \/ FlushUnlock(t)
    \/ SetDone(t)
    \/ SetRanStep(t)

LockNext ==
    \/ \E t \in Units : Run(t)
    \/ \E t \in Units : ~isParallel[t] /\ Parallel(t)
    \/ \E t \in Units : Return(t)
    \/ \E t \in Units : LockStep(t)
    \/ SuiteRecv
    \/ Foreign

LockSpec == VerboseInit /\ [][LockNext]_vars

(***************************************************************************)
(* The context of a unit.  tRunner derives t.ctx from the parent's context *)
(* and defers t.cancel() first, so that it runs last: after the deferred   *)
(* function has returned from its send, or while the panic of the fault    *)
(* path unwinds.                                                           *)
(***************************************************************************)
\* t.cancel() before the deferred function of tRunner.
CancelFirst(t) ==
    /\ Alive
    /\ pc[t] = "deferred"
    /\ ~cancelled[t]
    /\ cancelled' = [cancelled EXCEPT ![t] = TRUE]
    /\ UNCHANGED <<output, locks>>
    /\ UNCHANGED <<n, parent, pc, flags, sub, barrier, fault, walk, joinIdx,
                   running, maxParallel, verbose, panicked, foreign, history>>

\* defer t.cancel()
Cancel(t) ==
    /\ \/ pc[t] = "exited" /\ Alive
       \/ pc[t] = "panicked"
    /\ ~cancelled[t]
    /\ cancelled' = [cancelled EXCEPT ![t] = TRUE]
    /\ UNCHANGED <<output, locks>>
    /\ UNCHANGED <<n, parent, pc, flags, sub, barrier, fault, walk, joinIdx,
                   running, maxParallel, verbose, panicked, foreign, history>>

\* c.ctx is done: the unit's cancel or that of a context it derives from
\* was called.
CtxDone(u) == cancelled[u] \/ \E a \in Ancestors(u) : cancelled[a]

CtxNext ==
    \/ FlagNext
    \/ \E t \in Units : Cancel(t)

\* The deferred calls of a goroutine that ends do run.
CtxSpec ==
    /\ WideInit
    /\ [][CtxNext]_vars
    /\ \A t \in Units : WF_vars(Cancel(t))

(***************************************************************************)
(* The reports on their way up.  Verbose or not, bodies call Run and       *)
(* Parallel once and end by returning, by FailNow or by runtime.Goexit;    *)
(* the scheduler runs every goroutine that can take a step.                *)
(***************************************************************************)
ReportInit == Start(BOOLEAN, {MaxSlots}, FALSE)

ReportEnd(t) ==
    \/ Return(t)
    \/ FailNow(t)
    \/ Goexit(t)

ReportNext ==
    \/ \E t \in Units : Run(t)
    \/ \E t \in Units : ~isParallel[t] /\ Parallel(t)
    \/ \E t \in Units : ReportEnd(t)
    \/ \E t \in Units : Step(t)
    \/ \E t \in Units : FaultReport(t)
    \/ SuiteRecv

ReportSpec ==
    /\ ReportInit
    /\ [][ReportNext]_vars
    /\ \A t \in Units : WF_vars(Step(t))
    /\ \A t \in Units : WF_vars(ReportEnd(t))
    /\ \A t \in Units : WF_vars(FaultReport(t))
    /\ WF_vars(SuiteRecv)

(***************************************************************************)
(* The claims.                                                             *)
(***************************************************************************)
NonRoot == {u \in Units : Created(u) /\ u # Root}

\* The sends a unit performs in its life: one, or two if it calls Parallel.
SendsDue(u) == IF isParallel[u] THEN 2 ELSE 1

\* C1 as stated: at most one send is ever performed on the signal of a unit
\* created by Run.
C1_OneSendOnly == \A u \in NonRoot : Len(sends[u]) <= 1

\* C1 as amended: a unit that never calls Parallel sends once on its signal,
\* at the end of tRunner, and Run receives it; a unit that calls Parallel
\* sends twice, first in Parallel, received by Run, then at the end of
\* tRunner, received by the loop over t.sub of its parent's tRunner.  Every
\* receiver is the goroutine of the parent, which called Run.
C1_Sends ==
    \A u \in NonRoot :
        /\ Len(sends[u]) <= SendsDue(u)
        /\ pc[u] = "exited" => Len(sends[u]) = SendsDue(u)
        /\ Len(sends[u]) >= 1 =>
              sends[u][1] = <<IF isParallel[u] THEN "Parallel_send"
                                               ELSE "signal",
                              parent[u], "Run">>
        /\ Len(sends[u]) = 2 => sends[u][2] = <<"signal", parent[u], "tRunner">>

\* A unit that called Parallel has ended and performed both of its sends.
C1_Witness ==
    \E u \in NonRoot :
        isParallel[u] /\ pc[u] = "exited" /\ Len(sends[u]) = 2

\* The unit's goroutine is running the test function.
InBody(u) == pc[u] \in {"body", "Fail", "FailNow", "Run_ret", "Parallel_send"}

\* C2: when Run has returned for a child that never called Parallel, the
\* child is done: its body ended, its report step ran, its goroutine sent
\* its signal, and every parallel subtest it registered performed both of
\* its sends.  Of two children of one parent the earlier is parallel or
\* ended before the later is created, so two sequential children never run
\* their bodies at once.
C2_Sequential ==
    /\ \A c \in NonRoot :
          (ret[c] # "none" /\ ~isParallel[c]) =>
              /\ done[c] /\ finished[c] /\ pc[c] = "exited"
              /\ \A i \in 1..Len(sub[c]) :
                    /\ pc[sub[c][i]] = "exited"
                    /\ Len(sends[sub[c][i]]) = 2
    /\ \A a, b \in NonRoot :
          (a < b /\ parent[a] = parent[b]) =>
              /\ isParallel[a] \/ (pc[a] = "exited" /\ done[a])
              /\ ~(InBody(a) /\ InBody(b) /\ ~isParallel[a] /\ ~isParallel[b])

\* Run has returned for a sequential child that had a parallel subtest.
C2_Witness ==
    \E c \in NonRoot :
        ret[c] # "none" /\ ~isParallel[c] /\ Len(sub[c]) > 0

\* The positions of tRunner's deferred function after the barrier's close.
AfterClose == {"join", "reacquire", "report", "done", "setRan", "signal",
               "exited"}

\* The state part of C3: closed at most once, only with the body finished
\* and a subtest registered; no parallel unit past a barrier still open.
C3_Barrier ==
    \A u \in Units :
        /\ nClose[u] <= 1
        /\ barrier[u] =>
              /\ finished[u] /\ Len(sub[u]) > 0 /\ pc[u] \in AfterClose
        /\ (Created(u) /\ isParallel[u]
                /\ pc[u] \notin {"Parallel_send", "Parallel_barrier"}) =>
              barrier[parent[u]]

\* The step part of C3: a barrier changes only in its unit's own Deferred.
C3_OwnClose ==
    \A u \in Units :
        barrier'[u] # barrier[u] =>
            pc[u] = "deferred" /\ pc'[u] = "join" /\ nClose[u] = 0

\* C3: a barrier is closed at most once, by its unit's own deferred function,
\* after the body has finished and only with a registered parallel subtest;
\* and a unit that called Parallel goes on past the barrier only once its
\* parent's barrier is closed, which is after the parent's body, and so all
\* of its calls of Run, ended.
C3_BarrierProtocol == [](C3_Barrier) /\ [][C3_OwnClose]_vars

\* A parallel unit runs its body again after its parent closed the barrier.
C3_Witness ==
    \E u \in NonRoot :
        isParallel[u] /\ pc[u] = "body" /\ barrier[parent[u]]

\* C4: in every state a failed unit's parent, and so every ancestor up to
\* the root, is failed too.
C4_FailedAncestors ==
    \A u \in NonRoot : failed[u] => failed[parent[u]]

\* A unit two levels below the root has failed.
C4_Witness ==
    \E u \in NonRoot : failed[u] /\ parent[u] # Root

\* C5: the units whose body is executing are never more than the gate has
\* slots.
C5_Limit == Cardinality({u \in Units : InBody(u)}) <= maxParallel

\* With one slot, one of two parallel children of the same parent runs its
\* body while the other waits at the gate.
C5_Witness ==
    /\ maxParallel = 1
    /\ \E a, b \in NonRoot :
          /\ a # b /\ parent[a] = parent[b]
          /\ isParallel[a] /\ isParallel[b]
          /\ pc[a] = "body" /\ pc[b] = "Parallel_gate"

\* Every created unit is done, its goroutine has ended, and it performed the
\* sends due.
Terminated ==
    /\ pc[Root] = "exited"
    /\ \A u \in Units :
          Created(u) =>
              /\ done[u] /\ pc[u] = "exited"
              /\ Len(sends[u]) = SendsDue(u)
              /\ Len(reports[u]) <= 1

\* C6: when every body ends by returning, by FailNow or by SkipNow, under a
\* fair scheduler every unit created reaches done, every Run returns and no
\* goroutine stays blocked on a signal, a barrier or the gate.
C6_Completes == <>Terminated

\* A run has ended in which a parent left its body by SkipNow or FailNow
\* after a child registered through Parallel.
C6_Witness ==
    /\ Terminated
    /\ \E u \in NonRoot :
          /\ isParallel[u]
          /\ skipped[parent[u]] \/ failed[parent[u]]

\* C7 as stated: once the child is done, what Run returned for it is true
\* exactly if the child has not failed.
C7_RunReportsSuccess ==
    \A c \in NonRoot :
        (ret[c] # "none" /\ done[c]) => (ret[c] = "true" <=> ~failed[c])

\* C8 as stated: once done is true on a unit, its failed flag never changes.
C8_FailedFrozen ==
    [][\A u \in Units : done[u] => failed'[u] = failed[u]]_vars

\* The state part of C9: sub holds each parallel child once.
C9_Registered ==
    /\ \A p \in Units : \A i, j \in 1..Len(sub[p]) :
          sub[p][i] = sub[p][j] => i = j
    /\ \A u \in NonRoot :
          isParallel[u] <=> \E i \in 1..Len(sub[parent[u]]) :
                                sub[parent[u]][i] = u

\* The step part of C9: isParallel is never reset, and the panic of a second
\* call changes nothing else.
C9_SecondCall ==
    /\ \A u \in Units : isParallel[u] => isParallel'[u]
    /\ (panicked = "" /\ panicked' = "testing: t.Parallel called multiple times")
          => /\ sub' = sub
             /\ sends' = sends
             /\ running' = running
             /\ isParallel' = isParallel
             /\ pc' = pc

\* C9: isParallel is set once and never reset; a unit is in its parent's sub
\* exactly if it is parallel, and at most once; a second call of Parallel
\* panics without appending to sub, sending on the signal or taking a slot.
C9_ParallelOnce == [](C9_Registered) /\ [][C9_SecondCall]_vars

\* A second call of Parallel has ended the process.
C9_Witness == panicked = "testing: t.Parallel called multiple times"

\* The positions of tRunner's deferred function on its fault path.
FaultPath == {"fault_Fail", "fault_report", "panicked"}

\* The unit's goroutine takes a step of the fault path.
FaultStep(u) ==
    /\ \/ pc[u] \in FaultPath
       \/ pc[u] = "deferred" /\ (fault[u] \/ ~finished[u])
    /\ pc'[u] # pc[u] \/ walk'[u] # walk[u]

\* The state part of C10: who is on the fault path, and what holds when the
\* panic is raised again.
C10_Raised ==
    \A u \in Units :
        /\ pc[u] \in FaultPath <=>
              (pc[u] \notin {"unborn", "body", "Fail", "FailNow", "Run_wait",
                             "Run_ret", "Parallel_send", "Parallel_barrier",
                             "Parallel_gate", "deferred"}
                  /\ (fault[u] \/ ~finished[u]))
        /\ pc[u] = "panicked" =>
              /\ panicked = "tRunner: panic(err)"
              /\ failed[u]
              /\ \A a \in Ancestors(u) : failed[a]
              /\ reports[u] = IF u = Root THEN <<>> ELSE <<"FAIL">>
              /\ ~barrier[u] /\ ~done[u]
              /\ \A i \in 1..Len(sends[u]) : sends[u][i][1] # "signal"

\* The step part of C10: what no step of the fault path touches.
C10_NoFinalization ==
    \A u \in Units :
        FaultStep(u) =>
            /\ barrier' = barrier /\ nClose' = nClose
            /\ done' = done /\ ran' = ran
            /\ sends' = sends /\ running' = running

\* C10: a unit whose goroutine ends with a recovered panic, or with finished
\* false, takes the fault path and no other does; there Fail marks the unit
\* and its ancestors, the report is flushed to the parent once and the
\* panic is raised again; no step of the path closes the barrier, sets
\* done, sets ran, releases a slot or sends on the signal.
C10_FaultPath == [](C10_Raised) /\ [][C10_NoFinalization]_vars

\* A unit below the root that called runtime.Goexit has raised the panic.
C10_Witness ==
    \E u \in NonRoot : pc[u] = "panicked" /\ ~fault[u] /\ Len(sub[u]) > 0

\* The status a unit's flags call for.
FlagStatus(u) ==
    IF failed[u] THEN "FAIL" ELSE IF skipped[u] THEN "SKIP" ELSE "PASS"

\* The unit's goroutine goes through t.report().
ReportStep(u) ==
    \/ pc[u] = "report" /\ pc'[u] = "done"
    \/ pc[u] = "fault_report" /\ pc'[u] = "panicked"

\* C11: a unit emits at most one status line, and the root none; the line
\* is emitted in the report step alone, FAIL for a failed unit, skipped or
\* not, verbose or not, and for a unit that has not failed SKIP or PASS by
\* its skipped flag when verbose and nothing when not.
C11_ReportPolicy ==
    /\ [](\A u \in Units : Len(reports[u]) <= 1 /\ reports[Root] = <<>>)
    /\ [][\A u \in Units :
            /\ reports'[u] # reports[u] => ReportStep(u)
            /\ ReportStep(u) =>
                  reports'[u] =
                     IF u # Root /\ (failed[u] \/ verbose)
                     THEN Append(reports[u], FlagStatus(u))
                     ELSE reports[u]]_vars

\* A failed and skipped unit reported FAIL, and in the same verbose run a
\* unit reported SKIP.
C11_Witness ==
    /\ verbose
    /\ \E u, v \in NonRoot :
          /\ failed[u] /\ skipped[u] /\ reports[u] = <<"FAIL">>
          /\ reports[v] = <<"SKIP">>

\* The TAP line that goes with a status line.
TapOf(st) ==
    CASE st = "FAIL" -> "not ok"
      [] st = "SKIP" -> "ok # SKIP"
      [] st = "PASS" -> "ok"

\* C12 as stated: with a TAP destination configured, every unit at any
\* depth has one TAP line for its status line, "not ok" for FAIL,
\* "ok # SKIP" for SKIP and "ok" for PASS, and no TAP line without a status
\* line.
C12_TapPerStatus ==
    tap[Root] =>
        \A u \in NonRoot :
            /\ Len(taps[u]) = Len(reports[u])
            /\ \A i \in 1..Len(taps[u]) : taps[u][i] = TapOf(reports[u][i])

\* C13 as stated: every unit created ran its body, so once it is done and
\* has sent its signal its ran flag is true, also when its body called Run
\* only with names that were filtered out; and ran on a unit implies ran on
\* its parent, and so on every ancestor.
C13_RanTracks ==
    /\ \A u \in NonRoot : (done[u] /\ pc[u] = "exited") => ran[u]
    /\ \A u \in NonRoot : ran[u] => ran[parent[u]]

\* C14: in every state a unit that is done is finished, and no step of any
\* goroutine resets a failed flag.
C14_Flags ==
    /\ [](\A u \in Units : done[u] => finished[u])
    /\ [][\A u \in Units : failed[u] => failed'[u]]_vars

\* A unit failed by its child and then skipped is done, and the root has
\* ended on the fault path, failed a second time.
C14_Witness ==
    /\ pc[Root] = "panicked"
    /\ \E u \in NonRoot : done[u] /\ failed[u] /\ skipped[u]

\* The positions of tRunner's deferred function off the fault path.
AfterBody == {"deferred"} \cup AfterClose

\* The step part of C15: the step that sets skipped on a unit sets its
\* finished flag and changes no other flag of any unit.
C15_Frame ==
    \A t \in Units :
        (skipped'[t] /\ ~skipped[t]) =>
            /\ finished'[t]
            /\ failed' = failed
            /\ \A u \in Units \ {t} :
                  skipped'[u] = skipped[u] /\ finished'[u] = finished[u]
            /\ done' = done /\ ran' = ran
            /\ hasSub' = hasSub /\ isParallel' = isParallel

\* The state part of C15: a failure is never due to a skip.  Every failed
\* unit is, or has below it, a unit that did not skip and is failed or in
\* the middle of its call of Fail.
C15_NoFailureBySkip ==
    \A u \in Units :
        failed[u] =>
            \E v \in Units :
                /\ Created(v) /\ (v = u \/ u \in Ancestors(v))
                /\ ~skipped[v]
                /\ failed[v] \/ pc[v] \in {"Fail", "FailNow", "fault_Fail"}

\* C15: SkipNow sets the unit's skipped and finished flags and nothing else,
\* no failed flag and no flag of an ancestor; the skipped unit goes through
\* its finalization, becomes done and performs the sends due; and no unit is
\* failed for a skip alone.
C15_SkipFailsNothing ==
    /\ [][C15_Frame]_vars
    /\ [](C15_NoFailureBySkip)
    /\ [](\A u \in Units : skipped[u] => pc[u] \in AfterBody)
    /\ <>[](\A u \in Units :
               skipped[u] => /\ done[u] /\ pc[u] = "exited"
                             /\ Len(sends[u]) = SendsDue(u))

\* A run has ended in which a leaf two levels below the root skipped and no
\* unit failed.
C15_Witness ==
    /\ Terminated
    /\ \A u \in Units : ~failed[u]
    /\ \E u \in NonRoot :
          /\ skipped[u] /\ parent[u] # Root
          /\ \A v \in NonRoot : parent[v] # u

\* The state part of C16.  A unit's own cancel is called only once its task
\* has ended, after the receive of its last send or after the panic of the
\* fault path; off the fault path it is then done, has performed the sends
\* due and has joined its parallel children.  While no unit has taken the
\* fault path, a unit whose context is done, through its own cancel or an
\* ancestor's, has ended; after a fault the only other units whose context
\* is done are blocked in Parallel on the barrier of their parent.
C16_CancelLast ==
    \A u \in Units :
        /\ cancelled[u] => pc[u] \in {"exited", "panicked"}
        /\ (cancelled[u] /\ pc[u] = "exited") =>
              /\ done[u] /\ Len(sends[u]) = SendsDue(u)
              /\ \A i \in 1..Len(sub[u]) : pc[sub[u][i]] = "exited"
        /\ (CtxDone(u) /\ Alive) => pc[u] = "exited"
        /\ CtxDone(u) => pc[u] \in {"exited", "panicked", "Parallel_barrier"}

\* C16: the context of a unit is never cancelled while its body executes;
\* the unit's cancel runs last, only after its children were joined and its
\* send was received, so that off the fault path no child's context is done
\* while the child still runs; and every task that ends, by a return, by
\* FailNow, by SkipNow or by a fault, calls its cancel.
C16_Context ==
    /\ [](C16_CancelLast)
    /\ <>[](\A u \in Units :
               \/ pc[u] = "panicked"
               \/ pc[u] = "exited" /\ Alive
               => cancelled[u])

\* A unit that joined a parallel child has cancelled its context after the
\* child cancelled its own.
C16_Witness ==
    \E u \in NonRoot :
        /\ isParallel[u] /\ cancelled[u] /\ skipped[u]
        /\ cancelled[parent[u]]

\* The goroutines that take unit locks: the units' own and the other one.
OtherTask == MaxUnits + 1
Tasks == Units \cup {OtherTask}

\* The unit locks a goroutine holds.
Holds(k) ==
    IF k = OtherTask
    THEN IF fpc = "set" THEN {Head(fq)} ELSE {}
    ELSE Range(held[k])

\* The unit lock a goroutine is asking for.
Wants(k) ==
    IF k = OtherTask
    THEN IF fpc = "check" THEN {Head(fq)} ELSE {}
    ELSE CASE pc[k] \in {"Fail", "FailNow", "fault_Fail", "setRan"} ->
                {Head(walk[k])}
           [] pc[k] \in {"report", "flushing"} -> {k}
           [] pc[k] = "flush" -> {parent[k]}
           [] OTHER -> {}

\* Goroutine a waits for a lock that goroutine b holds.
WaitsFor(a, b) == Wants(a) \cap Holds(b) # {}

\* b is reached from a along at most k edges of WaitsFor.
RECURSIVE WaitPath(_, _, _)
WaitPath(a, b, k) ==
    /\ k > 0
    /\ \/ WaitsFor(a, b)
       \/ \E c \in Tasks : WaitsFor(a, c) /\ WaitPath(c, b, k - 1)

\* The goroutine is blocked on a channel or on the gate.
Blocked(t) ==
    pc[t] \in {"Run_wait", "Parallel_send", "Parallel_barrier",
               "Parallel_gate", "join", "reacquire", "signal"}

\* C17: a unit's goroutine holds unit locks across its steps in
\* flushToParent alone, there the parent's and then, with it, the unit's
\* own; Fail and setRan hold one lock at a time; a lock has one holder; no
\* goroutine blocked on a signal, a barrier or the gate holds a lock; and no
\* goroutines wait for each other's locks in a cycle, with another
\* goroutine calling Fail on any unit during a flush.
C17_LockOrder ==
    /\ \A t \in Units :
          /\ held[t] \in {<<>>, <<parent[t]>>, <<parent[t], t>>}
          /\ Len(held[t]) = 1 <=> pc[t] = "flushing"
          /\ Len(held[t]) = 2 <=> pc[t] = "copy"
          /\ Blocked(t) => held[t] = <<>>
    /\ \A a \in Tasks : Cardinality(Holds(a)) <= 2
    /\ Cardinality(Holds(OtherTask)) <= 1
    /\ \A a, b \in Tasks : a # b => Holds(a) \cap Holds(b) = {}
    /\ \A a \in Tasks : ~WaitPath(a, a, MaxUnits + 1)

\* In flushToParent a unit holds its parent's lock and waits for its own,
\* which the other goroutine holds in Fail.
C17_Witness ==
    \E t \in NonRoot :
        /\ pc[t] = "flushing" /\ held[t] = <<parent[t]>>
        /\ WaitsFor(t, OtherTask)

(***************************************************************************)
(* C18                                                                     *)
(***************************************************************************)
\* The units that take a slot of their own: the root, which holds one from
\* the start, and a parallel unit once it is through the gate.
SlotOwners ==
    {u \in 1..n : \/ u = Root
                  \/ /\ isParallel[u]
                     /\ pc[u] \notin {"Parallel_send", "Parallel_barrier",
                                      "Parallel_gate"}}

\* The unit whose slot u runs on: itself, or its nearest ancestor with one.
RECURSIVE SlotOwner(_)
SlotOwner(u) ==
    IF u = Root \/ isParallel[u] THEN u ELSE SlotOwner(parent[u])

\* The slot u runs on is given up for the parallel subtests, by u or by the
\* sequential unit at the end of the calls of Run below u.
RECURSIVE Lent(_)
Lent(u) ==
    \/ pc[u] \in {"join", "reacquire"}
    \/ /\ pc[u] = "Run_wait"
       /\ ~isParallel[Child(u)]
       /\ Lent(Child(u))

\* A parallel unit has given its slot back for good.
GaveBack(u) ==
    /\ isParallel[u]
    /\ pc[u] \in {"join", "report", "done", "setRan", "signal", "exited"}

SlotHeld(u) == ~Lent(u) /\ ~GaveBack(u)

\* A sequential unit with subtests between its wait for them and its signal.
Rejoined(u) ==
    /\ ~isParallel[u]
    /\ Len(sub[u]) > 0
    /\ pc[u] \in {"report", "done", "setRan", "signal"}

C18_Count ==
    /\ running = Cardinality({u \in SlotOwners : SlotHeld(u)})
    /\ running >= 0
    /\ running <= maxParallel
    /\ \A u \in 1..n : Rejoined(u) => SlotHeld(SlotOwner(u))
    /\ done[Root] => running = 1

\* A step that releases is the finalization of a unit whose slot is held.
C18_Release ==
    running' < running =>
        \E t \in 1..n : /\ pc[t] = "deferred"
                        /\ pc'[t] \in {"join", "report"}
                        /\ SlotHeld(SlotOwner(t))
                        /\ running' = running - 1

\* C18: the gate's count is the number of slots held, by the root and by the
\* parallel units through the gate that have not released; it stays between
\* zero and the limit; release is called only by the finalization of a unit
\* whose own or inherited slot is held; a sequential unit holds the slot again
\* between its wait for its parallel subtests and its signal; and when the
\* root is done one slot is held, as at the start.
C18_SlotsConserved == [](C18_Count) /\ [][C18_Release]_vars

\* The root is done, after a sequential unit gave up its slot for its
\* parallel subtest and took it again.
C18_Witness ==
    /\ done[Root]
    /\ running = 1
    /\ \E u \in NonRoot : ~isParallel[u] /\ Len(sub[u]) > 0 /\ pc[u] = "exited"

(***************************************************************************)
(* C19                                                                     *)
(***************************************************************************)
\* Where tRunner is once t.report() at line 405 has returned.
PastReport == {"done", "setRan", "signal", "exited"}

Children(t) == {c \in 1..n : parent[c] = t}

Emitted(u) == reports[u] # <<>>

\* A unit is at or past its report step only with every child past its own.
C19_ChildrenFirst ==
    \A t \in 1..n :
        pc[t] \in PastReport \cup {"report"} =>
            \A c \in Children(t) : pc[c] \in PastReport

\* A unit emits its status line into a parent that has not reported, be it
\* at its report step or on its fault path.
C19_IntoOpenParent ==
    \A u \in 1..n :
        reports'[u] # reports[u] =>
            /\ pc[parent[u]] \notin PastReport \cup {"panicked"}
            /\ ~Emitted(parent[u])

\* Every non-root ancestor of a unit that emitted a status line has emitted
\* one.
ReachedRoot ==
    \A u \in NonRoot :
        Emitted(u) => \A a \in Ancestors(u) \ {Root} : Emitted(a)

C20_FailureReported ==
    \A u \in NonRoot :
        (Alive /\ pc[u] = "signal" /\ failed[u]) =>
            "FAIL" \in Range(reports[u])

=============================================================================
